---- MODULE Spec2Model ----
(***************************************************************************)
(* Model of DQC-fanout-packer.py: the commutation oracle, the sliding      *)
(* helpers and the fanout_pack pass, one action per step of the pass.      *)
(* Indices (i, j, start, end, src, dst) are 0-based as in the source; the  *)
(* lists are TLA+ sequences, read through At.                              *)
(***************************************************************************)
EXTENDS Integers, Sequences, FiniteSets, TLC

\* ---------------------------------------------------------------- bounds
NumQubits == 3
MaxAngle == 2
MaxLen == 3

Qubits == 0 .. (NumQubits - 1)
Angles == 1 .. MaxAngle

\* ------------------------------------------------- list helpers (0-based)
At(L, k) == L[k + 1]

Range(L) == {L[k] : k \in 1 .. Len(L)}

RECURSIVE Flatten(_)
Flatten(LL) == IF LL = << >> THEN << >> ELSE Head(LL) \o Flatten(Tail(LL))

RECURSIVE SeqsUpTo(_, _)
SeqsUpTo(S, n) ==
    IF n = 0 THEN {<< >>}
    ELSE LET shorter == SeqsUpTo(S, n - 1)
         IN shorter \cup {Append(s, x) : s \in {q \in shorter : Len(q) = n - 1}, x \in S}

\* ------------------------------------------------------ gate constructors
Gate(name, qubits, params) == [name |-> name, qubits |-> qubits, params |-> params]

CX(cq, tq) == Gate("cx", <<cq, tq>>, << >>)

CP(theta, cq, tq) == Gate("cp", <<cq, tq>>, <<theta>>)

FANOUT(cq, tgts) == Gate("fanout", <<cq>> \o tgts, << >>)

\* variant: every parameter is the first target's angle
CP_FANOUT_first_angle(cq, t2th, ord) ==
    Gate("cp_fanout", <<cq>> \o ord, [k \in 1 .. Len(ord) |-> t2th[ord[1]]])

CP_FANOUT(cq, t2th, ord) ==
    Gate("cp_fanout", <<cq>> \o ord, [k \in 1 .. Len(ord) |-> t2th[ord[k]]])

\* ----------------------------------------------------- commutation oracle
\* variant: only the first qubit counts as touched
touched_first(g) == {g.qubits[1]}

touched(g) == Range(g.qubits)

is_cx(g) == g.name = "cx"

is_cp(g) == g.name = "cp"

\* variant: the fused cx kind is taken for packetable
is_packetable_fused(g) == g.name \in {"cx", "cp", "fanout"}

is_packetable(g) == g.name \in {"cx", "cp"}

is_diagonal(g) == g.name \in {"cp", "rz", "cp_fanout"}

commutes(g1, g2) ==
    IF is_diagonal(g1) /\ is_diagonal(g2) THEN TRUE
    ELSE IF touched(g1) \cap touched(g2) = {} THEN TRUE
    ELSE FALSE

\* -------------------------------------------------------- sliding helpers
\* variant: the scan of the window starts one position late
can_slide_late(L, packet_end, idx) ==
    \A k \in (packet_end + 1) .. (idx - 1) : commutes(At(L, idx), At(L, k))

can_slide(L, packet_end, idx) ==
    \A k \in packet_end .. (idx - 1) : commutes(At(L, idx), At(L, k))

\* variant: a repeated target is not rejected
cx_mergeable_repeat(L, idx, cq, sn, packet_end) ==
    /\ is_cx(At(L, idx)) /\ At(L, idx).qubits[1] = cq
    /\ can_slide(L, packet_end, idx)

\* the test that guards a merge in the cx scan:
\* is_cx(gj) and gj.qubits[0] == c, then t not in seen and can_slide(C, end, j)
cx_mergeable(L, idx, cq, sn, packet_end) ==
    /\ is_cx(At(L, idx)) /\ At(L, idx).qubits[1] = cq
    /\ At(L, idx).qubits[2] \notin sn
    /\ can_slide(L, packet_end, idx)

\* variant: the control is not compared
cp_mergeable_any_control(L, idx, cq, packet_end) ==
    /\ is_cp(At(L, idx))
    /\ can_slide(L, packet_end, idx)

\* the test that guards a merge in the cp scan:
\* is_cp(gj) and gj.qubits[0] == c, then can_slide(C, end, j)
cp_mergeable(L, idx, cq, packet_end) ==
    /\ is_cp(At(L, idx)) /\ At(L, idx).qubits[1] = cq
    /\ can_slide(L, packet_end, idx)

\* variant: the angle of a repeated target replaces the stored one
accumulate_overwrite(t2th, tq, ang) ==
    [q \in DOMAIN t2th \cup {tq} |-> IF q = tq THEN ang ELSE t2th[q]]

\* if t in target_to_theta: target_to_theta[t] += th  else: target_to_theta[t] = th
accumulate(t2th, tq, ang) ==
    IF tq \in DOMAIN t2th
    THEN [t2th EXCEPT ![tq] = @ + ang]
    ELSE [q \in DOMAIN t2th \cup {tq} |-> IF q = tq THEN ang ELSE t2th[q]]

\* variant: C[src-1] = C[src], the other half of the exchange is lost
swap_step_half(L, s) ==
    [k \in 1 .. Len(L) |-> IF k = s THEN L[s + 1] ELSE L[k]]

\* one iteration of bubble_left's loop body: exchange L[s-1] and L[s]
swap_step(L, s) ==
    [k \in 1 .. Len(L) |-> IF k = s THEN L[s + 1] ELSE IF k = s + 1 THEN L[s] ELSE L[k]]

\* variant: L.insert(b, g), the index of the span's end before the deletion
replace_span_late(L, a, b, g) ==
    LET D == SubSeq(L, 1, a) \o SubSeq(L, b + 1, Len(L))
        p == IF b < Len(D) THEN b ELSE Len(D)
    IN SubSeq(D, 1, p) \o <<g>> \o SubSeq(D, p + 1, Len(D))

\* variant: del L[a:b+1]
replace_span_wide(L, a, b, g) ==
    SubSeq(L, 1, a) \o <<g>> \o SubSeq(L, b + 2, Len(L))

\* del L[a:b]; L.insert(a, g)
replace_span(L, a, b, g) ==
    SubSeq(L, 1, a) \o <<g>> \o SubSeq(L, b + 1, Len(L))

\* ------------------------------------------------------------ the inputs
\* cx from control 0 to every other qubit, and one cx of another control that overlaps them
CXGates == {CX(0, q) : q \in Qubits \ {0}} \cup {CX(1, 2)}

\* cp on (0, 1) with every angle, cp from control 0 to the other qubits, one cp of another
\* control
CPGates == {CP(x, 0, 1) : x \in Angles} \cup {CP(1, 0, q) : q \in Qubits \ {0, 1}}
              \cup {CP(1, 1, 2)}

\* a non-diagonal and a diagonal one-qubit instruction
OpaqueGates == {Gate("h", <<2>>, << >>), Gate("rz", <<1>>, <<1>>)}

\* instructions of the fused kinds, which the pass must leave alone
FusedGates == {FANOUT(0, <<1, 2>>), CP_FANOUT(0, [q \in {1} |-> 1], <<1>>)}

Gates == CXGates \cup CPGates \cup OpaqueGates \cup FusedGates

\* the demonstration circuits of the source (angles in units of pi/8)
ExampleC1 == <<CX(0, 1), CX(2, 3), CX(0, 2), CX(0, 3)>>

ExampleC2 == <<CX(0, 1), CX(0, 2), CX(0, 3), CX(0, 1), CX(2, 3)>>

ExampleC3 == <<Gate("h", <<0>>, << >>), CP(4, 1, 0), CP(2, 2, 0), CP(1, 3, 0),
               Gate("h", <<1>>, << >>)>>

ExampleQFT4 == <<Gate("h", <<0>>, << >>), CP(4, 0, 1), CP(2, 0, 2), CP(1, 0, 3),
                 Gate("h", <<1>>, << >>), CP(4, 1, 2), CP(2, 1, 3),
                 Gate("h", <<2>>, << >>), CP(4, 2, 3),
                 Gate("h", <<3>>, << >>)>>

ExampleCGR == <<CX(0, 1), Gate("h", <<1>>, << >>), CX(0, 2),
                Gate("rz", <<2>>, <<3>>), CX(0, 3)>>

Examples == {ExampleC1, ExampleC2, ExampleC3, ExampleQFT4, ExampleCGR}

\* longer inputs over a few gates: a barrier, candidates behind it, a repeated target
CoreGates == {CX(0, 1), CX(0, 2), CP(1, 0, 1), CP(2, 0, 1), CP(1, 0, 2),
              Gate("h", <<2>>, << >>), Gate("rz", <<1>>, <<1>>)}

LongInputs == {s \in SeqsUpTo(CoreGates, MaxLen + 1) : Len(s) = MaxLen + 1}

Inputs == SeqsUpTo(Gates, MaxLen) \cup LongInputs \cup Examples

\* ------------------------------------------------------------- the state
VARIABLES
    C_in,             \* argument of the current call of fanout_pack
    C,                \* the working copy
    i, j,             \* outer and inner scan indices
    c, t, th,         \* control of the open packet, target and angle of the candidate
    targets, seen,    \* accumulator of a cx packet
    target_to_theta, order,   \* accumulator of a cp packet
    start, end,       \* span of the open packet
    src, dst,         \* bubble_left's arguments
    pc,               \* position in fanout_pack
    pass,             \* 1: fanout_pack(C), 2: fanout_pack(fanout_pack(C))
    origin,           \* history: for each element of C, the positions in C_in it stands for
    rejected          \* history: positions in C_in the open packet's scan has left in place

vars == <<C_in, C, i, j, c, t, th, targets, seen, target_to_theta, order,
          start, end, src, dst, pc, pass, origin, rejected>>

cxlocals == <<targets, seen>>
cplocals == <<target_to_theta, order>>
bubble == <<src, dst>>
hist == <<origin, rejected>>

Init ==
    /\ C_in \in Inputs
    /\ C = << >>
    /\ i = 0 /\ j = 0 /\ c = 0 /\ t = 0 /\ th = 0
    /\ targets = << >> /\ seen = {}
    /\ target_to_theta = << >> /\ order = << >>
    /\ start = 0 /\ end = 0 /\ src = 0 /\ dst = 0
    /\ pc = "call"
    /\ pass = 1
    /\ origin = << >>
    /\ rejected = {}

\* C = list(C_in); i = 0
Enter ==
    /\ pc = "call"
    /\ C' = C_in
    /\ i' = 0
    /\ origin' = [k \in 1 .. Len(C_in) |-> <<k>>]
    /\ rejected' = {}
    /\ pc' = "outer"
    /\ UNCHANGED <<C_in, j, c, t, th, cxlocals, cplocals, start, end, bubble, pass>>

\* if not is_packetable(g): i += 1; continue
Skip ==
    /\ pc = "outer"
    /\ i < Len(C)
    /\ ~is_packetable(At(C, i))
    /\ i' = i + 1
    /\ UNCHANGED <<C_in, C, j, c, t, th, cxlocals, cplocals, start, end, bubble, pc, pass, hist>>

\* if is_cx(g): open a packet
OpenCX ==
    /\ pc = "outer"
    /\ i < Len(C)
    /\ is_packetable(At(C, i))
    /\ is_cx(At(C, i))
    /\ c' = At(C, i).qubits[1]
    /\ targets' = <<At(C, i).qubits[2]>>
    /\ seen' = {At(C, i).qubits[2]}
    /\ start' = i
    /\ end' = i + 1
    /\ j' = i + 1
    /\ rejected' = {}
    /\ pc' = "scan_cx"
    /\ UNCHANGED <<C_in, C, i, t, th, cplocals, bubble, pass, origin>>

\* the candidate at j is merged: t = gj.qubits[1]; bubble_left(C, j, end) is entered
ScanCXMerge ==
    /\ pc = "scan_cx"
    /\ j < Len(C)
    /\ cx_mergeable(C, j, c, seen, end)
    /\ t' = At(C, j).qubits[2]
    /\ src' = j
    /\ dst' = end
    /\ pc' = "bubble_cx"
    /\ UNCHANGED <<C_in, C, i, j, c, th, cxlocals, cplocals, start, end, pass, hist>>

\* the instruction at j is left in place: j += 1
ScanCXReject ==
    /\ pc = "scan_cx"
    /\ j < Len(C)
    /\ ~cx_mergeable(C, j, c, seen, end)
    /\ t' = IF is_cx(At(C, j)) /\ At(C, j).qubits[1] = c THEN At(C, j).qubits[2] ELSE t
    /\ j' = j + 1
    /\ rejected' = rejected \cup Range(At(origin, j))
    /\ UNCHANGED <<C_in, C, i, c, th, cxlocals, cplocals, start, end, bubble, pc, pass, origin>>

\* bubble_left: while src > dst: C[src-1], C[src] = C[src], C[src-1]; src -= 1
BubbleStep ==
    /\ pc \in {"bubble_cx", "bubble_cp"}
    /\ src > dst
    /\ C' = swap_step(C, src)
    /\ origin' = swap_step(origin, src)
    /\ src' = src - 1
    /\ UNCHANGED <<C_in, i, j, c, t, th, cxlocals, cplocals, start, end, dst, pc, pass, rejected>>

\* after bubble_left returns: targets.append(t); seen.add(t); end += 1; j = end
MergeCX ==
    /\ pc = "bubble_cx"
    /\ ~(src > dst)
    /\ targets' = Append(targets, t)
    /\ seen' = seen \cup {t}
    /\ end' = end + 1
    /\ j' = end + 1
    /\ pc' = "scan_cx"
    /\ UNCHANGED <<C_in, C, i, c, t, th, cplocals, start, bubble, pass, hist>>

\* del C[start:end]; C.insert(start, FANOUT(c, targets)); i = start + 1
CloseCX ==
    /\ pc = "scan_cx"
    /\ ~(j < Len(C))
    /\ C' = replace_span(C, start, end, FANOUT(c, targets))
    /\ origin' = replace_span(origin, start, end, Flatten(SubSeq(origin, start + 1, end)))
    /\ i' = start + 1
    /\ pc' = "outer"
    /\ UNCHANGED <<C_in, j, c, t, th, cxlocals, cplocals, start, end, bubble, pass, rejected>>

\* if is_cp(g): open a packet
OpenCP ==
    /\ pc = "outer"
    /\ i < Len(C)
    /\ is_packetable(At(C, i))
    /\ ~is_cx(At(C, i))
    /\ is_cp(At(C, i))
    /\ c' = At(C, i).qubits[1]
    /\ target_to_theta' = [q \in {At(C, i).qubits[2]} |-> At(C, i).params[1]]
    /\ order' = <<At(C, i).qubits[2]>>
    /\ start' = i
    /\ end' = i + 1
    /\ j' = i + 1
    /\ rejected' = {}
    /\ pc' = "scan_cp"
    /\ UNCHANGED <<C_in, C, i, t, th, cxlocals, bubble, pass, origin>>

\* the candidate at j is merged: t, th are read; bubble_left(C, j, end) is entered
ScanCPMerge ==
    /\ pc = "scan_cp"
    /\ j < Len(C)
    /\ cp_mergeable(C, j, c, end)
    /\ t' = At(C, j).qubits[2]
    /\ th' = At(C, j).params[1]
    /\ src' = j
    /\ dst' = end
    /\ pc' = "bubble_cp"
    /\ UNCHANGED <<C_in, C, i, j, c, cxlocals, cplocals, start, end, pass, hist>>

\* the instruction at j is left in place: j += 1
ScanCPReject ==
    /\ pc = "scan_cp"
    /\ j < Len(C)
    /\ ~cp_mergeable(C, j, c, end)
    /\ t' = IF is_cp(At(C, j)) /\ At(C, j).qubits[1] = c THEN At(C, j).qubits[2] ELSE t
    /\ th' = IF is_cp(At(C, j)) /\ At(C, j).qubits[1] = c THEN At(C, j).params[1] ELSE th
    /\ j' = j + 1
    /\ rejected' = rejected \cup Range(At(origin, j))
    /\ UNCHANGED <<C_in, C, i, c, cxlocals, cplocals, start, end, bubble, pc, pass, origin>>

\* after bubble_left returns: fold (t, th) into the accumulator; end += 1; j = end
MergeCP ==
    /\ pc = "bubble_cp"
    /\ ~(src > dst)
    /\ target_to_theta' = accumulate(target_to_theta, t, th)
    /\ order' = IF t \in DOMAIN target_to_theta THEN order ELSE Append(order, t)
    /\ end' = end + 1
    /\ j' = end + 1
    /\ pc' = "scan_cp"
    /\ UNCHANGED <<C_in, C, i, c, t, th, cxlocals, start, bubble, pass, hist>>

\* del C[start:end]; C.insert(start, CP_FANOUT(c, target_to_theta, order)); i = start + 1
CloseCP ==
    /\ pc = "scan_cp"
    /\ ~(j < Len(C))
    /\ C' = replace_span(C, start, end, CP_FANOUT(c, target_to_theta, order))
    /\ origin' = replace_span(origin, start, end, Flatten(SubSeq(origin, start + 1, end)))
    /\ i' = start + 1
    /\ pc' = "outer"
    /\ UNCHANGED <<C_in, j, c, t, th, cxlocals, cplocals, start, end, bubble, pass, rejected>>

\* the outer loop ends: return C
Return ==
    /\ pc = "outer"
    /\ ~(i < Len(C))
    /\ pc' = "done"
    /\ UNCHANGED <<C_in, C, i, j, c, t, th, cxlocals, cplocals, start, end, bubble, pass, hist>>

\* the result of the first call is passed to a second call: fanout_pack(fanout_pack(C))
Repack ==
    /\ pc = "done"
    /\ pass = 1
    /\ C_in' = C
    /\ pass' = 2
    /\ pc' = "call"
    /\ UNCHANGED <<C, i, j, c, t, th, cxlocals, cplocals, start, end, bubble, hist>>

Next ==
    \/ Enter
    \/ Skip
    \/ OpenCX
    \/ ScanCXMerge
    \/ ScanCXReject
    \/ BubbleStep
    \/ MergeCX
    \/ CloseCX
    \/ OpenCP
    \/ ScanCPMerge
    \/ ScanCPReject
    \/ MergeCP
    \/ CloseCP
    \/ Return
    \/ Repack

Spec == Init /\ [][Next]_vars

\* termination is checked on the shorter general inputs, the inputs over the few gates
\* and the examples
TermInputs == SeqsUpTo(Gates, MaxLen - 1) \cup SeqsUpTo(CoreGates, MaxLen) \cup Examples

FairInit == Init /\ C_in \in TermInputs

\* the pass is sequential code: a step that can be taken is taken
FairSpec == FairInit /\ [][Next]_vars /\ WF_vars(Next)

\* ------------------------------------------------ vocabulary of the claims
Running == pc # "call"

\* the element at 1-based position n of C was inserted by the pass
Inserted(n) == C[n].name \in {"fanout", "cp_fanout"} /\ is_packetable(C_in[origin[n][1]])

SwapAt(F, k) == [m \in 1 .. Len(F) |-> IF m = k THEN F[k + 1] ELSE IF m = k + 1 THEN F[k] ELSE F[m]]

\* 1-based position, in the expansion of the working sequence, of its element at 0-based k
ExpandedPos(k) == Len(Flatten(SubSeq(origin, 1, k))) + 1

\* C1: the working sequence is reordered only by the adjacent transpositions of
\* bubble_left, each of them exchanges two instructions a, b with commutes(a, b),
\* and so the expansion of the working sequence (every fused instruction replaced by
\* the instructions merged into it, in merge order) changes only by swaps of adjacent
\* commuting instructions of the input.
C1_OnlyCommutingSwaps ==
    [][ (Running /\ pc' # "call") =>
          \/ /\ Flatten(origin') = Flatten(origin)
             /\ C' # C => /\ pc \in {"scan_cx", "scan_cp"}
                          /\ C' = replace_span(C, start, end, At(C', start))
          \/ /\ pc \in {"bubble_cx", "bubble_cp"} /\ src > dst
             /\ commutes(At(C, src - 1), At(C, src))
             /\ C' = SwapAt(C, src)
             /\ Flatten(origin') = SwapAt(Flatten(origin), ExpandedPos(src - 1))
             /\ At(C, src - 1) = C_in[At(origin, src - 1)[1]]
             /\ At(C, src) = C_in[At(origin, src)[1]]
      ]_vars

\* a transposition has been done and the moved instruction has reached packetEnd
C1_Witness ==
    /\ pc \in {"bubble_cx", "bubble_cp"}
    /\ src = dst
    /\ j >= dst + 2
    /\ Flatten(origin) # [k \in 1 .. Len(C_in) |-> k]

\* C2: idempotence: the second call returns its argument, the result of the first call,
\* element by element.
C2_Idempotent == (pc = "done" /\ pass = 2) => C = C_in

\* the second call has returned a sequence in which the first call fused several instructions
C2_Witness ==
    /\ pc = "done" /\ pass = 2
    /\ \E n \in 1 .. Len(C) : C[n].name = "cp_fanout" /\ Len(C[n].qubits) >= 3
    /\ \E n \in 1 .. Len(C) : C[n].name = "fanout" /\ Len(C[n].qubits) = 2

\* the non-packetable instructions of the input, as elements of origin, in input order
IsPassThrough(o) == Len(o) = 1 /\ ~is_packetable(C_in[o[1]])

\* C3: during the whole pass every instruction of the input whose kind is neither cx nor
\* cp is in the working sequence, unchanged, and these instructions are in the order they
\* have in the input; so they are in the output.
C3_PassThrough ==
    Running =>
        /\ SelectSeq(origin, IsPassThrough)
              = SelectSeq([k \in 1 .. Len(C_in) |-> <<k>>], IsPassThrough)
        /\ \A n \in 1 .. Len(C) : IsPassThrough(origin[n]) => C[n] = C_in[origin[n][1]]

\* the pass has returned after sliding a packetable instruction over a non-packetable one
\* that stands between two other non-packetable ones
C3_Witness ==
    /\ pc = "done" /\ pass = 1
    /\ Len(SelectSeq(origin, IsPassThrough)) >= 2
    /\ \E n \in 1 .. Len(C) : Len(origin[n]) >= 2 /\ origin[n][2] > origin[n][1] + 1

\* two cp of the input at 1-based positions a < b, same control and target, the only cp
\* on that pair, every instruction between them commuting with both
CPPair(a, b) ==
    /\ is_cp(C_in[a]) /\ is_cp(C_in[b])
    /\ C_in[a].qubits = C_in[b].qubits
    /\ Cardinality({k \in 1 .. Len(C_in) : is_cp(C_in[k]) /\ C_in[k].qubits = C_in[a].qubits}) = 2
    /\ \A k \in (a + 1) .. (b - 1) : commutes(C_in[a], C_in[k]) /\ commutes(C_in[b], C_in[k])

Lists(g, cq, tq) ==
    /\ g.name = "cp_fanout"
    /\ g.qubits[1] = cq
    /\ \E m \in 2 .. Len(g.qubits) : g.qubits[m] = tq

\* the output holds exactly one cp_fanout with the pair's control that lists its target,
\* once, with the sum of the two angles
FusedOnce(a, b) ==
    LET cq == C_in[a].qubits[1]
        tq == C_in[a].qubits[2]
        S == {n \in 1 .. Len(C) : Lists(C[n], cq, tq)}
    IN /\ Cardinality(S) = 1
       /\ \A n \in S :
            /\ Cardinality({m \in 2 .. Len(C[n].qubits) : C[n].qubits[m] = tq}) = 1
            /\ \A m \in 2 .. Len(C[n].qubits) :
                 C[n].qubits[m] = tq => C[n].params[m - 1] = C_in[a].params[1] + C_in[b].params[1]

\* C4 as stated: for every such pair the output holds exactly one cp_fanout with control
\* c that lists t, once, with angle theta1 + theta2.
C4_AngleAccumulation_Original ==
    pc = "done" =>
        \A a \in 1 .. Len(C_in) : \A b \in (a + 1) .. Len(C_in) :
            CPPair(a, b) => FusedOnce(a, b)

\* C4 amended: the same, for inputs that hold no cp_fanout with control c that lists t
\* (such an instruction passes through and is a second cp_fanout on the pair).
C4_AngleAccumulation ==
    pc = "done" =>
        \A a \in 1 .. Len(C_in) : \A b \in (a + 1) .. Len(C_in) :
            (/\ CPPair(a, b)
             /\ \A k \in 1 .. Len(C_in) :
                  ~Lists(C_in[k], C_in[a].qubits[1], C_in[a].qubits[2]))
            => FusedOnce(a, b)

\* the pass has returned on an input with such a pair, of two different angles, separated
\* by an instruction, and fused into a cp_fanout of two targets
C4_Witness ==
    /\ pc = "done" /\ pass = 1
    /\ \E a \in 1 .. Len(C_in) : \E b \in (a + 2) .. Len(C_in) :
         /\ CPPair(a, b)
         /\ C_in[a].params # C_in[b].params
         /\ \A k \in 1 .. Len(C_in) :
              ~Lists(C_in[k], C_in[a].qubits[1], C_in[a].qubits[2])
         /\ \E n \in 1 .. Len(C) :
              Lists(C[n], C_in[a].qubits[1], C_in[a].qubits[2]) /\ Len(C[n].qubits) = 3

\* C5: the barrier scenario of the source's first example.
C5_Barrier ==
    (pc = "done" /\ C_in = ExampleC1) =>
        C = <<FANOUT(0, <<1>>), FANOUT(2, <<3>>), FANOUT(0, <<2, 3>>)>>

C5_Witness == pc = "done" /\ pass = 1 /\ C_in = ExampleC1 /\ Len(C) = 3

\* C6: every instruction the pass inserts combines instructions of one kind (cx into
\* fanout, cp into cp_fanout) and of one control, the control of the fused instruction;
\* the source's third example packs to three cp_fanout of one target each.
C6_GroupedByControl ==
    /\ Running =>
         \A n \in 1 .. Len(C) : Inserted(n) =>
            \A k \in Range(origin[n]) :
               /\ C_in[k].name = (IF C[n].name = "fanout" THEN "cx" ELSE "cp")
               /\ C_in[k].qubits[1] = C[n].qubits[1]
    /\ (pc = "done" /\ C_in = ExampleC3) =>
         C = <<Gate("h", <<0>>, << >>),
               CP_FANOUT(1, [q \in {0} |-> 4], <<0>>),
               CP_FANOUT(2, [q \in {0} |-> 2], <<0>>),
               CP_FANOUT(3, [q \in {0} |-> 1], <<0>>),
               Gate("h", <<1>>, << >>)>>

\* the pass has returned on the third example, where three cp share only their target
C6_Witness ==
    /\ pc = "done" /\ pass = 1 /\ C_in = ExampleC3
    /\ \A n \in 2 .. 4 : Inserted(n)

\* C7: termination: every call of fanout_pack reaches its return.  Each scan step leaves
\* the instruction at j in place and advances j, or starts a merge, after which one
\* instruction fewer lies after packetEnd although j is reset to packetEnd.
C7_Termination ==
    /\ (pc = "call") ~> (pc = "done")
    /\ [][ /\ (pc \in {"scan_cx", "scan_cp"} /\ pc' = pc) => (j' = j + 1 /\ end' = end)
           /\ (pc \in {"bubble_cx", "bubble_cp"} /\ pc' \in {"scan_cx", "scan_cp"}) =>
                 (j' = end' /\ Len(C') - end' = Len(C) - end - 1)
           /\ (pc = "outer" /\ pc' = "outer") => i' = i + 1
           /\ (pc \in {"scan_cx", "scan_cp"} /\ pc' = "outer") => i' = start + 1
         ]_vars

\* a call has returned after packets were closed with merges, the last scan having left
\* an instruction in place
C7_Witness ==
    /\ pc = "done" /\ pass = 1
    /\ Len(C) < Len(C_in)
    /\ rejected # {}

RECURSIVE Dedup(_)
Dedup(L) ==
    IF L = << >> THEN << >>
    ELSE LET front == Dedup(SubSeq(L, 1, Len(L) - 1))
         IN IF L[Len(L)] \in Range(front) THEN front ELSE Append(front, L[Len(L)])

RECURSIVE AngleSum(_, _, _, _)
\* sum of the angles of the cp instructions on (cq, tq) among L[ids[1]], .., L[ids[n]]
AngleSum(L, ids, n, qs) ==
    IF n = 0 THEN 0
    ELSE AngleSum(L, ids, n - 1, qs)
           + (IF is_cp(L[ids[n]]) /\ L[ids[n]].qubits = qs THEN L[ids[n]].params[1] ELSE 0)

\* C8: every instruction the pass inserts is well formed: its qubits are the anchor's
\* control followed by one or more pairwise distinct targets, none of them the control;
\* the targets are the anchor's target followed by the new targets of the merged
\* instructions, in merge order; a fanout has no parameters, a cp_fanout has one
\* parameter per target, the sum of the merged angles on that target.
C8_WellFormedFused ==
    Running =>
        \A n \in 1 .. Len(C) : Inserted(n) =>
            LET g == C[n]
                ids == origin[n]
                tg == SubSeq(g.qubits, 2, Len(g.qubits))
                merged == [k \in 1 .. Len(ids) |-> C_in[ids[k]].qubits[2]]
            IN /\ g.qubits[1] = C_in[ids[1]].qubits[1]
               /\ Len(tg) >= 1
               /\ \A k, m \in 1 .. Len(tg) : k # m => tg[k] # tg[m]
               /\ \A k \in 1 .. Len(tg) : tg[k] # g.qubits[1]
               /\ tg = Dedup(merged)
               /\ g.name = "fanout" => (g.params = << >> /\ Len(tg) = Len(ids))
               /\ g.name = "cp_fanout" =>
                     /\ Len(g.params) = Len(tg)
                     /\ \A k \in 1 .. Len(tg) :
                          g.params[k] = AngleSum(C_in, ids, Len(ids), <<g.qubits[1], tg[k]>>)

\* the pass has inserted a fanout of two targets and a cp_fanout in which a target repeats
C8_Witness ==
    /\ Running
    /\ \E n \in 1 .. Len(C) : Inserted(n) /\ C[n].name = "fanout" /\ Len(C[n].qubits) = 3
    /\ \E n \in 1 .. Len(C) :
         Inserted(n) /\ C[n].name = "cp_fanout" /\ Len(origin[n]) > Len(C[n].params)

InScan == pc \in {"scan_cx", "scan_cp"}
InBubble == pc \in {"bubble_cx", "bubble_cp"}

\* C9: an instruction the scan of the open packet has left in place is never merged into
\* that packet, also after a merge has reset j to packetEnd: it is never the instruction
\* bubble_left moves, it is never inside the packet's span, and the instructions left in
\* place stay, unchanged and in their order, right after packetEnd, between the packet and
\* every later candidate.
C9_RejectedNeverMerged ==
    (InScan \/ InBubble) =>
        /\ rejected \cap UNION {Range(origin[n]) : n \in (start + 1) .. end} = {}
        /\ InBubble => Range(At(origin, src)) \cap rejected = {}
        /\ \A r \in rejected : \E n \in (end + 1) .. Len(C) : origin[n] = <<r>> /\ C[n] = C_in[r]
        /\ \A n, m \in (end + 1) .. Len(C) :
              (n < m /\ origin[n][1] \in rejected /\ origin[m][1] \in rejected)
                  => origin[n][1] < origin[m][1]
        /\ InScan => \A n \in (end + 1) .. (end + Cardinality(rejected)) : origin[n][1] \in rejected

\* a merge has reset j to packetEnd while a candidate of the packet's kind and control,
\* left in place earlier in the scan, lies behind packetEnd
C9_Witness ==
    /\ InScan
    /\ end > start + 1
    /\ j = end
    /\ \E r \in rejected : C_in[r].name = At(C, start).name /\ C_in[r].qubits[1] = c

NoFusedInput == \A k \in 1 .. Len(C_in) : C_in[k].name \notin {"fanout", "cp_fanout"}

InputQubits == UNION {touched(C_in[k]) : k \in 1 .. Len(C_in)}

\* the occurrences of (cq, tq) in the fused instructions of kind nm of the output
Listed(nm, cq, tq) ==
    {p \in (1 .. Len(C)) \X (1 .. Len(C_in)) :
        /\ C[p[1]].name = nm
        /\ C[p[1]].qubits[1] = cq
        /\ p[2] + 1 <= Len(C[p[1]].qubits)
        /\ C[p[1]].qubits[p[2] + 1] = tq}

RECURSIVE ListedAngles(_)
\* sum of the parameters at the occurrences S (a subset of Listed("cp_fanout", .., ..))
ListedAngles(S) ==
    IF S = {} THEN 0
    ELSE LET p == CHOOSE x \in S : TRUE
         IN C[p[1]].params[p[2]] + ListedAngles(S \ {p})

\* C10: on an input without fanout/cp_fanout the output holds no cx and no cp; the
\* (control, target) pairs listed by its fanouts are, as a multiset, those of the cx of
\* the input; for every pair the angles listed by its cp_fanouts add up to the sum of
\* the angles of the cp of the input on that pair.
C10_Conservation ==
    (pc = "done" /\ NoFusedInput) =>
        /\ \A n \in 1 .. Len(C) : ~is_packetable(C[n])
        /\ \A cq \in InputQubits : \A tq \in InputQubits :
             /\ Cardinality(Listed("fanout", cq, tq))
                  = Cardinality({k \in 1 .. Len(C_in) : is_cx(C_in[k]) /\ C_in[k].qubits = <<cq, tq>>})
             /\ ListedAngles(Listed("cp_fanout", cq, tq))
                  = AngleSum(C_in, [k \in 1 .. Len(C_in) |-> k], Len(C_in), <<cq, tq>>)

\* the pass has returned on an input without fused instructions, with a cx target that
\* repeats (two fanouts list the pair) and a cp target that repeats (one entry, two angles)
C10_Witness ==
    /\ pc = "done" /\ pass = 1 /\ NoFusedInput
    /\ \E cq \in InputQubits : \E tq \in InputQubits : Cardinality(Listed("fanout", cq, tq)) = 2
    /\ \E n \in 1 .. Len(C) : C[n].name = "cp_fanout" /\ Len(origin[n]) > Len(C[n].params)

====
